---- MODULE Spec2Model ----
(***************************************************************************)
(* A model of notebooktester (src/src/notebooktester/main.py): the result  *)
(* cache consulted by NotebookTester.test_notebook, the execution of one   *)
(* notebook with its teardown, and the thread pool driven by run_tests     *)
(* together with the signal handler.                                       *)
(*                                                                         *)
(* The specifications share the definitions below:                         *)
(*   SpecCache    - successive calls of test_notebook by testers that      *)
(*                  share one cache directory, while sources are edited;   *)
(*   SpecTeardown - one call of _execute_notebook, step by step, with the  *)
(*                  two releases of _cleanup_notebook_client;              *)
(*   Spec         - one run of run_tests over a pool of worker threads,    *)
(*                  with interrupts;                                       *)
(*   SpecKey, SpecDiscovery, SpecDecision - _get_cache_key, find_notebooks *)
(*                  and _should_run_test applied to inputs drawn from      *)
(*                  bounded sets.                                          *)
(***************************************************************************)
EXTENDS Integers, Sequences, FiniteSets, TLC

(***************************************************************************)
(* Bounds of the model.                                                    *)
(***************************************************************************)
NumNotebooks == 3     \* documents below the root in a run of run_tests
MaxTime == 2          \* modification times are 0..MaxTime
MaxBudget == 2        \* time budgets (self.timeout) are 1..MaxBudget
MaxNeed == 3          \* a document needs 1..MaxNeed seconds to execute
MaxLeftover == 1      \* tasks still pending on the loop when _execute_notebook is over
NumWorkers == 2       \* max_workers of the pool
MaxDeleted == 1       \* documents removed while the tester runs
MaxSignals == 2       \* SIGINT / SIGTERM deliveries in a run

Notebooks == 1..NumNotebooks
Budgets == 1..MaxBudget

VARIABLES
    source,     \* the documents on disk: [present, mtime, doc] per notebook
    cache,      \* the record files of cache_dir: one NotebookStats per key, or none
    call,       \* SpecCache: the call of test_notebook in progress, or the last one
    unit,       \* SpecTeardown: one executing call of test_notebook, step by step
    run,        \* Spec: the tester and the main thread inside run_tests
    pool,       \* Spec: the ThreadPoolExecutor: its flag, its work queue, its threads
    fut,        \* Spec: the future of each job
    worker,     \* Spec: the worker threads of the pool
    key,        \* SpecKey: two paths and their cache keys
    disc,       \* SpecDiscovery: a directory tree and what find_notebooks returns
    dec,        \* SpecDecision: the inputs of _should_run_test and its answer
    share       \* SpecShare: two discovered paths, their jobs and the record files

vars == <<source, cache, call, unit, run, pool, fut, worker, key, disc, dec, share>>
poolVars == <<run, pool, fut, worker>>
pureVars == <<key, disc, dec, share>>

(***************************************************************************)
(* Messages are sequences of words; the marker test is a real substring    *)
(* test on them ("A cell timed out" in message).                           *)
(***************************************************************************)
Marker == <<"A", "cell", "timed", "out">>

Contains(msg, sub) ==
    \E i \in 1..(Len(msg) - Len(sub) + 1) : SubSeq(msg, i, i + Len(sub) - 1) = sub

SuccessMsg == <<"Success">>
\* nbclient's CellTimeoutError: "A cell timed out while it was being executed, ..."
TimeoutMsg == <<"A", "cell", "timed", "out", "while", "executed">>
\* a CellExecutionError of the document's own code
ErrorMsg == <<"ZeroDivisionError">>
\* a CellExecutionError whose traceback quotes the marker phrase
QuoteMsg == <<"Exception:", "A", "cell", "timed", "out">>
\* nbformat.read on a malformed document
ParseMsg == <<"Notebook", "does", "not", "appear", "to", "be", "JSON">>
\* the kernel of the session cannot be started
StartMsg == <<"No", "such", "kernel">>

(***************************************************************************)
(* Documents: what executing one does.  need is the time its slowest cell  *)
(* takes; fault says how it fails regardless of time.                      *)
(***************************************************************************)
Faults == {"none", "error", "quote", "malformed"}

Docs ==
    {[need |-> d, fault |-> "none"] : d \in 1..MaxNeed}
        \cup {[need |-> 1, fault |-> f] : f \in Faults \ {"none"}}

(***************************************************************************)
(* NotebookStats, as the record file holds it.                             *)
(***************************************************************************)
NoRecord == [kind |-> "none"]

\* the record file between open("w"), which empties it, and the end of json.dump:
\* empty or cut short, it does not parse
PartialRecord == [kind |-> "partial"]

NotebookStats(last_modified, success, message, timeout, execution_time) ==
    [kind |-> "stats", last_modified |-> last_modified, success |-> success,
     message |-> message, timeout |-> timeout, execution_time |-> execution_time]

\* TestResult without the path, which the caller knows
TestResult(success, message, cached) ==
    [success |-> success, message |-> message, cached |-> cached]

(***************************************************************************)
(* The sandbox collaborator: client.async_execute() under a budget.        *)
(* startFails is its failure to start a session.                           *)
(***************************************************************************)
Outcome(success, message) == [success |-> success, message |-> message]

ExecuteOutcome(doc, timeout, startFails) ==
    IF startFails THEN Outcome(FALSE, StartMsg)
    ELSE IF doc.fault = "error" THEN Outcome(FALSE, ErrorMsg)
    ELSE IF doc.fault = "quote" THEN Outcome(FALSE, QuoteMsg)
    ELSE IF doc.need > timeout THEN Outcome(FALSE, TimeoutMsg)
    ELSE Outcome(TRUE, SuccessMsg)

(***************************************************************************)
(* NotebookTester._should_run_test.  "raise" is the exception of           *)
(* json.load(f) on a record file that does not parse, or the exception     *)
(* of notebook_path.stat() on a source that is gone; neither is caught.    *)
(* cache_dir is always a Path here (the constructor wraps it), so          *)
(* `not self.cache_dir` is false.                                          *)
(***************************************************************************)
\* mutant: the stored budget must exceed the current one for the job to be skipped
ShouldRunTest_StrictBudget(force, timeout, rec, src) ==
    IF force THEN "run"
    ELSE IF rec.kind = "none" THEN "run"
    ELSE IF rec.kind = "partial" THEN "raise"
    ELSE IF rec.timeout > timeout /\ Contains(rec.message, Marker) THEN "skip"
    ELSE IF ~src.present THEN "raise"
    ELSE IF src.mtime > rec.last_modified \/ ~rec.success THEN "run"
    ELSE "skip"

\* mutant: a source as old as the record counts as modified
ShouldRunTest_MtimeGeq(force, timeout, rec, src) ==
    IF force THEN "run"
    ELSE IF rec.kind = "none" THEN "run"
    ELSE IF rec.kind = "partial" THEN "raise"
    ELSE IF rec.timeout >= timeout /\ Contains(rec.message, Marker) THEN "skip"
    ELSE IF ~src.present THEN "raise"
    ELSE IF src.mtime >= rec.last_modified \/ ~rec.success THEN "run"
    ELSE "skip"

\* mutant: the source's mtime is not looked at
ShouldRunTest_NoMtime(force, timeout, rec, src) ==
    IF force THEN "run"
    ELSE IF rec.kind = "none" THEN "run"
    ELSE IF rec.kind = "partial" THEN "raise"
    ELSE IF rec.timeout >= timeout /\ Contains(rec.message, Marker) THEN "skip"
    ELSE IF ~src.present THEN "raise"
    ELSE IF ~rec.success THEN "run"
    ELSE "skip"

\* mutant: force is not looked at
ShouldRunTest_NoForce(force, timeout, rec, src) ==
    IF rec.kind = "none" THEN "run"
    ELSE IF rec.kind = "partial" THEN "raise"
    ELSE IF rec.timeout >= timeout /\ Contains(rec.message, Marker) THEN "skip"
    ELSE IF ~src.present THEN "raise"
    ELSE IF src.mtime > rec.last_modified \/ ~rec.success THEN "run"
    ELSE "skip"

\* mutant: the rule of the modified source is applied before the rule of the timeout
ShouldRunTest_MtimeFirst(force, timeout, rec, src) ==
    IF force THEN "run"
    ELSE IF rec.kind = "none" THEN "run"
    ELSE IF rec.kind = "partial" THEN "raise"
    ELSE IF ~src.present THEN "raise"
    ELSE IF src.mtime > rec.last_modified THEN "run"
    ELSE IF rec.timeout >= timeout /\ Contains(rec.message, Marker) THEN "skip"
    ELSE IF ~rec.success THEN "run"
    ELSE "skip"

ShouldRunTest(force, timeout, rec, src) ==
    IF force THEN "run"
    ELSE IF rec.kind = "none" THEN "run"
    ELSE IF rec.kind = "partial" THEN "raise"
    ELSE IF rec.timeout >= timeout /\ Contains(rec.message, Marker) THEN "skip"
    ELSE IF ~src.present THEN "raise"
    ELSE IF src.mtime > rec.last_modified \/ ~rec.success THEN "run"
    ELSE "skip"

\* test_notebook, the branch that answers from the record file
CachedResult(rec) ==
    IF rec.kind = "stats"
    THEN TestResult(rec.success, rec.message, TRUE)
    ELSE TestResult(FALSE, <<"Error", "reading", "cache">>, FALSE)

\* _execute_notebook: the NotebookStats of its two return statements
ExecutionStats(outcome, timeout) ==
    [success |-> outcome.success, message |-> outcome.message, timeout |-> timeout,
     execution_time |-> IF outcome.success THEN "measured" ELSE "inf"]

\* test_notebook: the record it saves, stamped with the source's mtime at that moment
SavedStats(src, stats) ==
    NotebookStats(src.mtime, stats.success, stats.message, stats.timeout,
                  stats.execution_time)

(***************************************************************************)
(* SpecCache: test_notebook called again and again, each time by a tester  *)
(* built with its own timeout and force over the same cache directory.     *)
(***************************************************************************)
NoDoc == [need |-> 0, fault |-> "none"]
NoStats == [success |-> FALSE, message |-> <<>>, timeout |-> 0, execution_time |-> "inf"]
NoResult == [success |-> FALSE, message |-> <<>>, cached |-> FALSE]

IdleCall ==
    [pc |-> "idle", nb |-> 0, timeout |-> 0, force |-> FALSE,
     executed |-> FALSE,    \* the call went past _should_run_test
     doc |-> NoDoc,         \* the document nbformat.read returned
     readAt |-> 0,          \* the source's mtime when it was read (kept by no code)
     stats |-> NoStats,     \* what _execute_notebook returned
     saving |-> NoRecord,   \* the NotebookStats being saved, when pc = "dump"
     ret |-> NoResult]      \* the TestResult returned, when pc = "returned"

CallOver == call.pc \in {"idle", "returned", "raised"}

\* test_notebook up to the decision: the cached answer, or on to execution
TestNotebookCall(nb, timeout, force) ==
    /\ CallOver
    /\ LET d == ShouldRunTest(force, timeout, cache[nb], source[nb])
           c == [IdleCall EXCEPT !.nb = nb, !.timeout = timeout, !.force = force]
       IN  call' = CASE d = "raise" -> [c EXCEPT !.pc = "raised"]
                     [] d = "skip" -> [c EXCEPT !.pc = "returned",
                                                !.ret = CachedResult(cache[nb])]
                     [] OTHER -> [c EXCEPT !.pc = "open", !.executed = TRUE]
    /\ UNCHANGED <<source, cache, unit, pureVars, poolVars>>

\* _execute_notebook: open and parse; a failure goes to its except branch, whose
\* stat() raises in turn when the source is gone
OpenNotebook ==
    /\ call.pc = "open"
    /\ LET src == source[call.nb]
       IN  call' = IF ~src.present THEN [call EXCEPT !.pc = "raised"]
                   ELSE IF src.doc.fault = "malformed"
                   THEN [call EXCEPT !.pc = "save", !.readAt = src.mtime,
                             !.stats = ExecutionStats(Outcome(FALSE, ParseMsg), call.timeout)]
                   ELSE [call EXCEPT !.pc = "execute", !.doc = src.doc,
                             !.readAt = src.mtime]
    /\ UNCHANGED <<source, cache, unit, pureVars, poolVars>>

\* _execute_notebook: the session, its execution, stat() for the stats, teardown
ExecuteNotebook(startFails) ==
    /\ call.pc = "execute"
    /\ call' = IF ~source[call.nb].present THEN [call EXCEPT !.pc = "raised"]
               ELSE [call EXCEPT !.pc = "save",
                         !.stats = ExecutionStats(
                             ExecuteOutcome(call.doc, call.timeout, startFails),
                             call.timeout)]
    /\ UNCHANGED <<source, cache, unit, pureVars, poolVars>>

\* test_notebook after run_until_complete: stat(), and save_to_cache as far as
\* cache_file.open("w"), which leaves the record file empty
SaveResult ==
    /\ call.pc = "save"
    /\ LET src == source[call.nb]
       IN  IF ~src.present
           THEN /\ call' = [call EXCEPT !.pc = "raised"]
                /\ UNCHANGED cache
           ELSE /\ cache' = [cache EXCEPT ![call.nb] = PartialRecord]
                /\ call' = [call EXCEPT !.pc = "dump",
                                !.saving = SavedStats(src, call.stats)]
    /\ UNCHANGED <<source, unit, pureVars, poolVars>>

\* mutant: only a successful run is dumped; a failed one leaves the opened file empty
DumpRecord_SuccessOnly ==
    /\ call.pc = "dump"
    /\ cache' = IF call.stats.success
                THEN [cache EXCEPT ![call.nb] = call.saving]
                ELSE cache
    /\ call' = [call EXCEPT !.pc = "returned",
                    !.ret = TestResult(call.stats.success, call.stats.message, FALSE)]
    /\ UNCHANGED <<source, unit, pureVars, poolVars>>

\* save_to_cache: json.dump and the closing of the file; test_notebook returns
DumpRecord ==
    /\ call.pc = "dump"
    /\ cache' = [cache EXCEPT ![call.nb] = call.saving]
    /\ call' = [call EXCEPT !.pc = "returned",
                    !.ret = TestResult(call.stats.success, call.stats.message, FALSE)]
    /\ UNCHANGED <<source, unit, pureVars, poolVars>>

\* cache_file.open("w") raises OSError (the cache directory is gone or cannot be
\* written): nothing in test_notebook catches it
SaveOpenFails ==
    /\ call.pc = "save" /\ source[call.nb].present
    /\ call' = [call EXCEPT !.pc = "raised"]
    /\ UNCHANGED <<source, cache, unit, pureVars, poolVars>>

\* json.dump or the flush at close raises OSError (no space left): the record file
\* stays as far as it was written, and nothing in test_notebook catches it
DumpFails ==
    /\ call.pc = "dump"
    /\ call' = [call EXCEPT !.pc = "raised"]
    /\ UNCHANGED <<source, cache, unit, pureVars, poolVars>>

\* the process of the tester is killed in the middle of a call (SIGKILL, power
\* loss); the next tester starts afresh over the same cache directory
KillTester ==
    /\ ~CallOver
    /\ call' = IdleCall
    /\ UNCHANGED <<source, cache, unit, pureVars, poolVars>>

\* the environment edits a document (or writes it anew)
WriteSource(nb, doc) ==
    /\ source[nb].mtime < MaxTime
    /\ source' = [source EXCEPT ![nb] = [present |-> TRUE, mtime |-> @.mtime + 1,
                                         doc |-> doc]]
    /\ UNCHANGED <<cache, call, unit, pureVars, poolVars>>

\* the environment removes a document
DeleteSource(nb) ==
    /\ source[nb].present
    /\ source' = [source EXCEPT ![nb].present = FALSE]
    /\ UNCHANGED <<cache, call, unit, pureVars, poolVars>>


(***************************************************************************)
(* SpecTeardown: one executing call of test_notebook, statement by         *)
(* statement: _execute_notebook with its try / except / finally, the two   *)
(* tasks asyncio.gather runs for _cleanup_notebook_client on the call's    *)
(* private event loop, the cancelling of what is left on the loop, and the *)
(* saving of the record.                                                   *)
(*                                                                         *)
(* What the session's releases do is the environment's choice:             *)
(*   kc.stop_channels, a plain function ("sync") or a coroutine function   *)
(*   ("async"), returns, raises RuntimeError or never returns;             *)
(*   km.shutdown_kernel(now=True), run in a thread, returns, raises        *)
(*   RuntimeError or asyncio.TimeoutError, or does not return in time.     *)
(***************************************************************************)
Exceptions == {"RuntimeError", "TimeoutError"}      \* subclasses of Exception

KcKinds == {"none", "sync", "async"}                \* client.kc
KmKinds == {"none", "present"}                      \* client.km
KcDoes == {"returns", "hangs"} \cup {"RuntimeError"}
KmDoes == {"returns", "hangs"} \cup Exceptions

\* _safe_stop_channels: except Exception
SafeStopChannelsCatches(e) == e \in Exceptions

\* mutant: only the timeout is caught around the kernel shutdown
SafeShutdownKernelCatches_OnlyTimeout(e) == e = "TimeoutError"

\* _safe_shutdown_kernel: except asyncio.TimeoutError, except Exception
SafeShutdownKernelCatches(e) == e = "TimeoutError" \/ e \in Exceptions

NoOutcome == Outcome(FALSE, <<>>)

IdleUnit ==
    [pc |-> "idle", nb |-> 0, timeout |-> 0,
     doc |-> NoDoc,             \* nb, as nbformat.read returned it
     client |-> FALSE,          \* client has been assigned a NotebookClient
     kc |-> "none", km |-> "none",
     outcome |-> NoOutcome,     \* what execution produced
     pending |-> "none",        \* _execute_notebook is about to: "return" stats, "raise"
     stats |-> NoStats,         \* the NotebookStats being returned
     cleanupCalls |-> 0,        \* calls of _cleanup_notebook_client
     cleanupDone |-> FALSE,     \* ... and it has returned
     escaped |-> FALSE,         \* an exception came out of _cleanup_notebook_client
     t1 |-> "none",             \* the task of _safe_stop_channels
     t2 |-> "none",             \* the task of _safe_shutdown_kernel
     kcDoes |-> "returns", kmDoes |-> "returns",
     stopCalls |-> 0,           \* calls of kc.stop_channels
     shutdownCalls |-> 0,       \* calls of km.shutdown_kernel
     leftover |-> 0,            \* tasks still pending on the loop
     saved |-> FALSE,           \* save_to_cache has written the record
     ret |-> NoResult]

\* a synchronous stop_channels that never returns holds the loop's only thread
LoopBlocked == unit.t1 = "blocked"

\* _execute_notebook: open and parse the document
ReadDocument ==
    /\ unit.pc = "begin"
    /\ LET src == source[unit.nb]
       IN  unit' = IF ~src.present
                   THEN [unit EXCEPT !.pc = "finally", !.pending = "raise"]
                   ELSE IF src.doc.fault = "malformed"
                   THEN [unit EXCEPT !.pc = "finally", !.pending = "return",
                             !.outcome = Outcome(FALSE, ParseMsg),
                             !.stats = ExecutionStats(Outcome(FALSE, ParseMsg), unit.timeout)]
                   ELSE [unit EXCEPT !.pc = "read", !.doc = src.doc]
    /\ UNCHANGED <<source, cache, call, pureVars, poolVars>>

\* _execute_notebook: client = NotebookClient(...)
CreateClient ==
    /\ unit.pc = "read"
    /\ unit' = [unit EXCEPT !.pc = "client", !.client = TRUE]
    /\ UNCHANGED <<source, cache, call, pureVars, poolVars>>

\* _execute_notebook: await client.async_execute(), then the return statement of
\* the try or of the except branch, whose stat() raises when the source is gone.
\* kc and km are what the session leaves on the client.
AsyncExecute(startFails, kc, km) ==
    /\ unit.pc = "client"
    /\ LET o == ExecuteOutcome(unit.doc, unit.timeout, startFails)
       IN  unit' = IF ~source[unit.nb].present
                   THEN [unit EXCEPT !.pc = "finally", !.kc = kc, !.km = km,
                             !.outcome = o, !.pending = "raise"]
                   ELSE [unit EXCEPT !.pc = "finally", !.kc = kc, !.km = km,
                             !.outcome = o, !.pending = "return",
                             !.stats = ExecutionStats(o, unit.timeout)]
    /\ UNCHANGED <<source, cache, call, pureVars, poolVars>>

\* mutant: the cleanup is called after a successful execution only
EnterFinally_OnSuccessOnly ==
    /\ unit.pc = "finally"
    /\ unit' = IF unit.client /\ unit.outcome.success
               THEN [unit EXCEPT !.pc = "gather", !.cleanupCalls = @ + 1,
                         !.t1 = "ready", !.t2 = "ready"]
               ELSE [unit EXCEPT !.pc = "after"]
    /\ UNCHANGED <<source, cache, call, pureVars, poolVars>>

\* _execute_notebook: finally: if client: await self._cleanup_notebook_client(client),
\* which creates the two tasks of asyncio.gather
EnterFinally ==
    /\ unit.pc = "finally"
    /\ unit' = IF unit.client
               THEN [unit EXCEPT !.pc = "gather", !.cleanupCalls = @ + 1,
                         !.t1 = "ready", !.t2 = "ready"]
               ELSE [unit EXCEPT !.pc = "after"]
    /\ UNCHANGED <<source, cache, call, pureVars, poolVars>>

\* _safe_stop_channels, up to its first suspension: the first task the loop runs
StopChannels(does) ==
    /\ unit.pc = "gather" /\ unit.t1 = "ready"
    /\ unit' =
         IF unit.kc = "none" THEN [unit EXCEPT !.t1 = "done"]
         ELSE IF unit.kc = "async"
         THEN [unit EXCEPT !.t1 = "awaiting", !.kcDoes = does, !.stopCalls = @ + 1]
         ELSE [unit EXCEPT !.kcDoes = does, !.stopCalls = @ + 1,
                   !.t1 = CASE does = "hangs" -> "blocked"
                            [] does = "returns" -> "done"
                            [] OTHER -> IF SafeStopChannelsCatches(does)
                                        THEN "done" ELSE "failed"]
    /\ UNCHANGED <<source, cache, call, pureVars, poolVars>>

\* await kc.stop_channels() is over: it returned, or raised into the except clause
StopChannelsDone ==
    /\ unit.pc = "gather" /\ unit.t1 = "awaiting" /\ unit.kcDoes # "hangs"
    /\ unit' = [unit EXCEPT !.t1 = IF unit.kcDoes = "returns"
                                       \/ SafeStopChannelsCatches(unit.kcDoes)
                                    THEN "done" ELSE "failed"]
    /\ UNCHANGED <<source, cache, call, pureVars, poolVars>>

\* _safe_shutdown_kernel, up to its suspension in asyncio.wait_for: the loop runs it
\* after the first step of _safe_stop_channels; asyncio.to_thread hands
\* km.shutdown_kernel to a thread
ShutdownKernel(does) ==
    /\ unit.pc = "gather" /\ unit.t2 = "ready"
    /\ unit.t1 # "ready" /\ ~LoopBlocked
    /\ unit' = IF unit.km = "none" THEN [unit EXCEPT !.t2 = "done"]
               ELSE [unit EXCEPT !.t2 = "waiting", !.kmDoes = does,
                         !.shutdownCalls = @ + 1]
    /\ UNCHANGED <<source, cache, call, pureVars, poolVars>>

\* the thread is over within the bound: shutdown_kernel returned or raised
ShutdownKernelDone ==
    /\ unit.pc = "gather" /\ unit.t2 = "waiting" /\ unit.kmDoes # "hangs"
    /\ ~LoopBlocked
    /\ unit' = [unit EXCEPT !.t2 = IF unit.kmDoes = "returns"
                                       \/ SafeShutdownKernelCatches(unit.kmDoes)
                                    THEN "done" ELSE "failed"]
    /\ UNCHANGED <<source, cache, call, pureVars, poolVars>>

\* the bound of asyncio.wait_for elapses first: asyncio.TimeoutError, the thread is
\* left to itself
ShutdownKernelTimeout ==
    /\ unit.pc = "gather" /\ unit.t2 = "waiting" /\ unit.kmDoes = "hangs"
    /\ ~LoopBlocked
    /\ unit' = [unit EXCEPT !.t2 = IF SafeShutdownKernelCatches("TimeoutError")
                                    THEN "done" ELSE "failed"]
    /\ UNCHANGED <<source, cache, call, pureVars, poolVars>>

\* asyncio.gather is over: _cleanup_notebook_client returns, or the exception of a
\* task comes out of it and replaces what _execute_notebook was returning.
\* leftover is what remains pending on the loop.
GatherDone(leftover) ==
    /\ unit.pc = "gather" /\ ~LoopBlocked
    /\ unit.t1 \in {"done", "failed"} /\ unit.t2 \in {"done", "failed"}
    /\ unit' = IF unit.t1 = "failed" \/ unit.t2 = "failed"
               THEN [unit EXCEPT !.pc = "after", !.escaped = TRUE, !.pending = "raise",
                         !.leftover = leftover]
               ELSE [unit EXCEPT !.pc = "after", !.cleanupDone = TRUE,
                         !.leftover = leftover]
    /\ UNCHANGED <<source, cache, call, pureVars, poolVars>>

\* run_and_cleanup: finally: a pending task is cancelled and awaited for at most a
\* second; its CancelledError or the TimeoutError is passed over
CancelRemainingTask ==
    /\ unit.pc = "after" /\ unit.leftover > 0
    /\ unit' = [unit EXCEPT !.leftover = @ - 1]
    /\ UNCHANGED <<source, cache, call, pureVars, poolVars>>

\* run_until_complete is over: the stats are there, or the exception goes on
\* through test_notebook's finally: loop.close()
ExecuteReturns ==
    /\ unit.pc = "after" /\ unit.leftover = 0
    /\ unit' = [unit EXCEPT !.pc = IF unit.pending = "return" THEN "save" ELSE "raised"]
    /\ UNCHANGED <<source, cache, call, pureVars, poolVars>>

\* test_notebook: stat(), save_to_cache, return TestResult
SaveAndReturn ==
    /\ unit.pc = "save"
    /\ LET src == source[unit.nb]
       IN  IF ~src.present
           THEN /\ unit' = [unit EXCEPT !.pc = "raised"]
                /\ UNCHANGED cache
           ELSE /\ cache' = [cache EXCEPT ![unit.nb] = SavedStats(src, unit.stats)]
                /\ unit' = [unit EXCEPT !.pc = "returned", !.saved = TRUE,
                                !.ret = TestResult(unit.stats.success,
                                                   unit.stats.message, FALSE)]
    /\ UNCHANGED <<source, call, pureVars, poolVars>>

(***************************************************************************)
(* Spec: run_tests.  The main thread discovers the documents, creates the  *)
(* pool, submits one call of test_notebook per document and collects the   *)
(* futures as they complete; the worker threads take the work items from   *)
(* the pool's queue; SIGINT / SIGTERM run _signal_handler on the main      *)
(* thread, wherever it is.                                                 *)
(*                                                                         *)
(* The pool is concurrent.futures.ThreadPoolExecutor: submit and shutdown  *)
(* work under the pool's lock; shutdown sets the flag and puts a None      *)
(* behind the queued work items, and a worker leaves when it takes a None  *)
(* with the flag set, putting it back for the others.  A work item that    *)
(* was queued before the shutdown is therefore still taken and run.        *)
(***************************************************************************)
Workers == 1..NumWorkers

NoneItem == 0       \* the None shutdown puts in the work queue

IdleRun ==
    [pc |-> "idle",             \* where the main thread is
     timeout |-> 0, force |-> FALSE,
     notebooks |-> <<>>,        \* what find_notebooks returned
     next |-> 1,                \* the document submitted next
     cur |-> 0,                 \* the future as_completed has yielded
     exc |-> FALSE,             \* GracefulExit is passing through the with statement
     executor |-> FALSE,        \* self.executor is set
     interrupted |-> FALSE,     \* self.interrupted
     signals |-> 0,             \* signals delivered
     successful |-> 0, failed |-> 0, no_more_time |-> 0,
     summaries |-> 0]           \* summary lines logged

NoPool == [created |-> FALSE, shutdown |-> FALSE, queue |-> <<>>, idle |-> 0, threads |-> 0]
NoFuture == [state |-> "none", raised |-> FALSE, result |-> NoResult, yielded |-> FALSE]
NoWorker == [state |-> "none", job |-> 0]

NoPoolRun ==
    /\ run = IdleRun
    /\ pool = NoPool
    /\ fut = [nb \in Notebooks |-> NoFuture]
    /\ worker = [w \in Workers |-> NoWorker]

RECURSIVE SortedSeq(_)
\* sorted(...) of a set of paths
SortedSeq(S) ==
    IF S = {} THEN <<>>
    ELSE LET m == CHOOSE x \in S : \A y \in S : x <= y
         IN  <<m>> \o SortedSeq(S \ {m})

\* find_notebooks over a directory: the documents that are there, sorted
FindNotebooksResult == SortedSeq({nb \in DOMAIN source : source[nb].present})

\* mutant: a timed-out result is counted as timed out and as failed
Count_FallThrough(r, result) ==
    IF result.success THEN [r EXCEPT !.successful = @ + 1]
    ELSE IF Contains(result.message, Marker)
    THEN [r EXCEPT !.no_more_time = @ + 1, !.failed = @ + 1]
    ELSE [r EXCEPT !.failed = @ + 1]

\* mutant: a failure is a timeout only when its message is the marker and no more
Count_MarkerEquals(r, result) ==
    IF result.success THEN [r EXCEPT !.successful = @ + 1]
    ELSE IF result.message = Marker THEN [r EXCEPT !.no_more_time = @ + 1]
    ELSE [r EXCEPT !.failed = @ + 1]

\* run_tests: the classification of a collected result into the three counters
Count(r, result) ==
    IF result.success THEN [r EXCEPT !.successful = @ + 1]
    ELSE IF Contains(result.message, Marker) THEN [r EXCEPT !.no_more_time = @ + 1]
    ELSE [r EXCEPT !.failed = @ + 1]

\* the main thread holds the pool's lock, inside submit or inside shutdown
HoldsPoolLock == run.pc \in {"submitting", "closing"}

\* executor.shutdown, the part under the lock
ShutDown(p) == [p EXCEPT !.shutdown = TRUE, !.queue = Append(@, NoneItem)]

\* run_tests is called
RunTests ==
    /\ run.pc = "idle"
    /\ run' = [run EXCEPT !.pc = "find"]
    /\ UNCHANGED <<source, cache, call, unit, pureVars, pool, fut, worker>>

\* notebooks = self.find_notebooks()
FindNotebooks ==
    /\ run.pc = "find"
    /\ run' = [run EXCEPT !.pc = "pool", !.notebooks = FindNotebooksResult]
    /\ UNCHANGED <<source, cache, call, unit, pureVars, pool, fut, worker>>

\* with ThreadPoolExecutor(max_workers=max_workers) as executor
CreatePool ==
    /\ run.pc = "pool"
    /\ pool' = [NoPool EXCEPT !.created = TRUE]
    /\ run' = [run EXCEPT !.pc = "assign"]
    /\ UNCHANGED <<source, cache, call, unit, pureVars, fut, worker>>

\* self.executor = executor
AssignExecutor ==
    /\ run.pc = "assign"
    /\ run' = [run EXCEPT !.pc = "submit", !.executor = TRUE]
    /\ UNCHANGED <<source, cache, call, unit, pureVars, pool, fut, worker>>

\* executor.submit(self.test_notebook, nb): the lock is taken
SubmitBegin ==
    /\ run.pc = "submit" /\ run.next <= Len(run.notebooks)
    /\ run' = [run EXCEPT !.pc = "submitting"]
    /\ UNCHANGED <<source, cache, call, unit, pureVars, pool, fut, worker>>

\* mutant: a thread is started for every work item that finds no idle thread
SubmitEnd_Unbounded ==
    /\ run.pc = "submitting"
    /\ LET j == run.notebooks[run.next]
           spawn == pool.idle = 0
       IN  /\ fut' = [fut EXCEPT ![j].state = "pending"]
           /\ pool' = [pool EXCEPT !.queue = Append(@, j),
                           !.idle = IF @ > 0 THEN @ - 1 ELSE @,
                           !.threads = IF spawn THEN @ + 1 ELSE @]
           /\ worker' = IF spawn /\ pool.threads < NumWorkers
                        THEN [worker EXCEPT ![pool.threads + 1].state = "idle"]
                        ELSE worker
    /\ run' = [run EXCEPT !.pc = "submit", !.next = @ + 1]
    /\ UNCHANGED <<source, cache, call, unit, pureVars>>

\* executor.submit: the work item is queued; a thread is started unless one is
\* idle or max_workers threads exist; the lock is released
SubmitEnd ==
    /\ run.pc = "submitting"
    /\ LET j == run.notebooks[run.next]
           spawn == pool.idle = 0 /\ pool.threads < NumWorkers
       IN  /\ fut' = [fut EXCEPT ![j].state = "pending"]
           /\ pool' = [pool EXCEPT !.queue = Append(@, j),
                           !.idle = IF @ > 0 THEN @ - 1 ELSE @,
                           !.threads = IF spawn THEN @ + 1 ELSE @]
           /\ worker' = IF spawn
                        THEN [worker EXCEPT ![pool.threads + 1].state = "idle"]
                        ELSE worker
    /\ run' = [run EXCEPT !.pc = "submit", !.next = @ + 1]
    /\ UNCHANGED <<source, cache, call, unit, pureVars>>

\* every document has been submitted: on to as_completed(futures)
SubmitDone ==
    /\ run.pc = "submit" /\ run.next > Len(run.notebooks)
    /\ run' = [run EXCEPT !.pc = "wait"]
    /\ UNCHANGED <<source, cache, call, unit, pureVars, pool, fut, worker>>

\* as_completed yields a finished future it has not yielded yet
AsCompleted(j) ==
    /\ run.pc = "wait"
    /\ fut[j].state = "finished" /\ ~fut[j].yielded
    /\ fut' = [fut EXCEPT ![j].yielded = TRUE]
    /\ run' = [run EXCEPT !.pc = "result", !.cur = j]
    /\ UNCHANGED <<source, cache, call, unit, pureVars, pool, worker>>

\* as_completed is exhausted: the with statements are left
LoopDone ==
    /\ run.pc = "wait"
    /\ \A i \in 1..Len(run.notebooks) : fut[run.notebooks[i]].yielded
    /\ run' = [run EXCEPT !.pc = "exit"]
    /\ UNCHANGED <<source, cache, call, unit, pureVars, pool, fut, worker>>

\* result = future.result() and the counting of it; an exception of the call goes
\* to the except clause
TakeResult ==
    /\ run.pc = "result"
    /\ run' = IF fut[run.cur].raised THEN [run EXCEPT !.pc = "except"]
              ELSE [Count(run, fut[run.cur].result) EXCEPT !.pc = "update"]
    /\ UNCHANGED <<source, cache, call, unit, pureVars, pool, fut, worker>>

\* pbar.update(1), the last statement of the try
PbarUpdate ==
    /\ run.pc = "update"
    /\ run' = [run EXCEPT !.pc = "wait"]
    /\ UNCHANGED <<source, cache, call, unit, pureVars, pool, fut, worker>>

\* mutant: the exception of a future is raised again instead of being counted
CollectFailure_Reraise ==
    /\ run.pc = "except"
    /\ run' = [run EXCEPT !.pc = "exit"]
    /\ UNCHANGED <<source, cache, call, unit, pureVars, pool, fut, worker>>

\* except Exception: self.failed += 1
CollectFailure ==
    /\ run.pc = "except"
    /\ run' = [run EXCEPT !.pc = "wait", !.failed = @ + 1]
    /\ UNCHANGED <<source, cache, call, unit, pureVars, pool, fut, worker>>

\* ThreadPoolExecutor.__exit__: shutdown(wait=True) takes the lock, sets the flag
\* and puts a None
ExitPool ==
    /\ run.pc = "exit"
    /\ pool' = ShutDown(pool)
    /\ run' = [run EXCEPT !.pc = "closing"]
    /\ UNCHANGED <<source, cache, call, unit, pureVars, fut, worker>>

\* shutdown(wait=True) releases the lock and joins the threads
ClosePool ==
    /\ run.pc = "closing"
    /\ run' = [run EXCEPT !.pc = "join"]
    /\ UNCHANGED <<source, cache, call, unit, pureVars, pool, fut, worker>>

\* every thread of the pool has ended: the with statement is left, by the
\* exception that entered __exit__ if there is one
JoinDone ==
    /\ run.pc = "join"
    /\ \A w \in 1..pool.threads : worker[w].state = "exited"
    /\ run' = [run EXCEPT !.pc = IF run.exc THEN "handler" ELSE "summary",
                          !.exc = FALSE]
    /\ UNCHANGED <<source, cache, call, unit, pureVars, pool, fut, worker>>

\* except GracefulExit: logger.warning
HandleGracefulExit ==
    /\ run.pc = "handler"
    /\ run' = [run EXCEPT !.pc = "summary"]
    /\ UNCHANGED <<source, cache, call, unit, pureVars, pool, fut, worker>>

\* logger.success("Test Summary ..."), and run_tests returns
Summary ==
    /\ run.pc = "summary"
    /\ run' = [run EXCEPT !.pc = "done", !.summaries = @ + 1]
    /\ UNCHANGED <<source, cache, call, unit, pureVars, pool, fut, worker>>

\* where raise GracefulExit() takes the main thread from pc: out of run_tests
\* ("crashed"), to except GracefulExit ("handler"), into the __exit__ of the pool
\* ("exit"), or to the except Exception of the collection loop ("except")
RaisedFrom(pc) ==
    CASE pc = "idle" -> "crashed"
      [] pc \in {"find", "pool"} -> "handler"
      [] pc \in {"assign", "submit", "submitting", "wait", "except", "exit"} -> "exit"
      [] pc \in {"result", "update"} -> "except"
      [] pc \in {"closing", "join"} -> "handler"
      [] OTHER -> "crashed"

\* _signal_handler, on the main thread.  shutdown(wait=False) needs the pool's lock:
\* when the main thread itself holds it, the handler never gets it.
SignalHandler ==
    /\ run.pc \notin {"done", "crashed", "deadlocked"}
    /\ run.signals < MaxSignals
    /\ IF run.executor /\ HoldsPoolLock
       THEN /\ run' = [run EXCEPT !.pc = "deadlocked", !.interrupted = TRUE,
                            !.signals = @ + 1]
            /\ UNCHANGED pool
       ELSE /\ run' = [run EXCEPT !.pc = RaisedFrom(run.pc),
                            !.exc = (RaisedFrom(run.pc) = "exit"),
                            !.interrupted = TRUE, !.signals = @ + 1]
            /\ pool' = IF run.executor THEN ShutDown(pool) ELSE pool
    /\ UNCHANGED <<source, cache, call, unit, pureVars, fut, worker>>

\* _worker: work_queue.get() returns a work item, which starts to run, or the None
\* of a shutdown, which is put back before the thread ends
WorkerTake(w) ==
    /\ worker[w].state = "idle"
    /\ pool.queue # <<>>
    /\ LET item == Head(pool.queue)
       IN  IF item = NoneItem
           THEN /\ pool.shutdown
                /\ pool' = [pool EXCEPT !.queue = Append(Tail(@), NoneItem)]
                /\ worker' = [worker EXCEPT ![w].state = "exited"]
                /\ UNCHANGED fut
           ELSE /\ pool' = [pool EXCEPT !.queue = Tail(@)]
                /\ worker' = [worker EXCEPT ![w] = [state |-> "decide", job |-> item]]
                /\ fut' = [fut EXCEPT ![item].state = "running"]
    /\ UNCHANGED <<source, cache, call, unit, pureVars, run>>

\* the work item is over: the future has its result or its exception, the thread
\* is idle again
Finished(w, raised, result) ==
    /\ fut' = [fut EXCEPT ![worker[w].job] =
                   [state |-> "finished", raised |-> raised, result |-> result,
                    yielded |-> FALSE]]
    /\ worker' = [worker EXCEPT ![w] = [state |-> "idle", job |-> 0]]
    /\ pool' = [pool EXCEPT !.idle = @ + 1]

\* test_notebook in a worker, up to the decision
JobDecide(w) ==
    /\ worker[w].state = "decide"
    /\ LET j == worker[w].job
           d == ShouldRunTest(run.force, run.timeout, cache[j], source[j])
       IN  CASE d = "raise" -> Finished(w, TRUE, NoResult)
             [] d = "skip" -> Finished(w, FALSE, CachedResult(cache[j]))
             [] OTHER -> /\ worker' = [worker EXCEPT ![w].state = "exec"]
                         /\ UNCHANGED <<fut, pool>>
    /\ UNCHANGED <<source, cache, call, unit, pureVars, run>>

\* test_notebook in a worker, the executing branch as a whole: _execute_notebook
\* with its teardown, stat(), save_to_cache, return
JobExecute(w, startFails) ==
    /\ worker[w].state = "exec"
    /\ LET j == worker[w].job
           src == source[j]
           o == IF src.doc.fault = "malformed" THEN Outcome(FALSE, ParseMsg)
                ELSE ExecuteOutcome(src.doc, run.timeout, startFails)
           stats == ExecutionStats(o, run.timeout)
       IN  IF ~src.present
           THEN /\ Finished(w, TRUE, NoResult)
                /\ UNCHANGED cache
           ELSE /\ Finished(w, FALSE, TestResult(stats.success, stats.message, FALSE))
                /\ cache' = [cache EXCEPT ![j] = SavedStats(src, stats)]
    /\ UNCHANGED <<source, call, unit, pureVars, run>>

\* the call never returns: the execution, or a release of the teardown, hangs
JobHangs(w) ==
    /\ worker[w].state = "exec"
    /\ worker' = [worker EXCEPT ![w].state = "hung"]
    /\ UNCHANGED <<source, cache, call, unit, pureVars, run, pool, fut>>

\* SpecCache follows one document and its record file: a call of test_notebook reads
\* and writes no other source and no other key (Spec runs several documents at once)
UnderTest == {1}

(***************************************************************************)
(* SpecKey: _get_cache_key.  A path is a sequence of names, a name a        *)
(* sequence of characters; str() joins the names of the resolved path with *)
(* the separator, and the key replaces the separators by "_".              *)
(***************************************************************************)
MaxNameLen == 3       \* characters in a name
MaxParts == 2         \* names in a path reference

Alphabet == {"a", "_"}

Sep == "/"

Names == UNION {[1..n -> Alphabet] : n \in 1..MaxNameLen}

\* a reference to a file: absolute, or relative to the working directory
Refs == {[abs |-> a, parts |-> ps] :
            a \in BOOLEAN, ps \in UNION {[1..n -> Names] : n \in 1..MaxParts}}

\* the working directories of the process: "/" and "/a"
Cwds == {<<>>, << <<"a">> >>}

\* Path.resolve(): the absolute path, as its names (no symbolic links, no dots here)
Resolve(cwd, ref) == IF ref.abs THEN ref.parts ELSE cwd \o ref.parts

RECURSIVE Str(_)
\* str() of an absolute path: "/name/name"
Str(parts) ==
    IF parts = <<>> THEN <<>>
    ELSE <<Sep>> \o Head(parts) \o Str(Tail(parts))

\* str.replace(old, new) for single characters
Replace(str, old, new) == [i \in 1..Len(str) |-> IF str[i] = old THEN new ELSE str[i]]

\* _get_cache_key
GetCacheKey(cwd, ref) ==
    Replace(Replace(Str(Resolve(cwd, ref)), Sep, "_"), "\\", "_")

NoKey == [pc |-> "idle", cwd |-> <<>>, p |-> <<>>, q |-> <<>>, kp |-> <<>>, kq |-> <<>>]

\* the keys of the two references are computed
GetCacheKeys ==
    /\ key.pc = "begin"
    /\ key' = [key EXCEPT !.pc = "done",
                   !.kp = GetCacheKey(key.cwd, key.p),
                   !.kq = GetCacheKey(key.cwd, key.q)]
    /\ UNCHANGED <<source, cache, call, unit, poolVars, disc, dec, share>>

(***************************************************************************)
(* SpecDiscovery: find_notebooks.  A name is a sequence of pieces, so that  *)
(* the substring test ".ipynb_checkpoints" in str(path) and the pattern    *)
(* "*.ipynb" are computed on the text of the path.  The trees have no      *)
(* directory whose own name ends in ".ipynb".                              *)
(***************************************************************************)
Checkpoints == ".ipynb_checkpoints"

DocName == <<"nb", ".ipynb">>                           \* nb.ipynb
LookalikeDoc == <<"nb", Checkpoints, ".ipynb">>         \* nb.ipynb_checkpoints.ipynb
TextName == <<"notes", ".txt">>                         \* notes.txt
SubDir == <<"sub">>                                     \* sub
CheckpointDir == <<Checkpoints>>                        \* .ipynb_checkpoints
LookalikeDir == <<Checkpoints, "_old">>                 \* .ipynb_checkpoints_old
RootName == <<"work">>                                  \* work

FileNames == {DocName, LookalikeDoc, TextName}
DirNames == {SubDir, CheckpointDir, LookalikeDir}

\* the files a tree may hold, relative to its root: at the top or one directory down
TreeFiles == {<<f>> : f \in FileNames} \cup {<<d, f>> : d \in DirNames, f \in FileNames}

\* the place of a name in the order of Python's str: "." sorts before the letters,
\* "nb" before "notes" before "sub" before "work", a prefix before its extensions
NameRank(name) ==
    CASE name = CheckpointDir -> 1
      [] name = LookalikeDir -> 2
      [] name = DocName -> 3
      [] name = LookalikeDoc -> 4
      [] name = TextName -> 5
      [] name = SubDir -> 6
      [] OTHER -> 7

RECURSIVE PathLess(_, _)
\* Path.__lt__: the names compared one after the other
PathLess(a, b) ==
    IF a = <<>> THEN b # <<>>
    ELSE IF b = <<>> THEN FALSE
    ELSE IF Head(a) = Head(b) THEN PathLess(Tail(a), Tail(b))
    ELSE NameRank(Head(a)) < NameRank(Head(b))

RECURSIVE SortedPaths(_)
\* sorted(...) of a set of paths
SortedPaths(S) ==
    IF S = {} THEN <<>>
    ELSE LET m == CHOOSE x \in S : \A y \in S \ {x} : PathLess(x, y)
         IN  <<m>> \o SortedPaths(S \ {m})

RECURSIVE PathText(_)
\* str(path), as its pieces
PathText(path) ==
    IF path = <<>> THEN <<>>
    ELSE <<Sep>> \o Head(path) \o PathText(Tail(path))

\* the pattern "*.ipynb" on the name of a file
MatchesIpynb(name) == name[Len(name)] = ".ipynb"

\* find_notebooks: root is the path of notebooks_dir, files what is below it
FindNotebooksOf(root, isFile, files) ==
    IF isFile THEN <<root>>
    ELSE SortedPaths({root \o f : f \in
            {g \in files : /\ MatchesIpynb(g[Len(g)])
                           /\ ~Contains(PathText(root \o g), <<Checkpoints>>)}})

NoDisc == [pc |-> "idle", root |-> <<>>, isFile |-> FALSE, files |-> {}, result |-> <<>>]

\* find_notebooks is called
CallFindNotebooks ==
    /\ disc.pc = "begin"
    /\ disc' = [disc EXCEPT !.pc = "done",
                     !.result = FindNotebooksOf(disc.root, disc.isFile, disc.files)]
    /\ UNCHANGED <<source, cache, call, unit, poolVars, key, dec, share>>

(***************************************************************************)
(* SpecDecision: _should_run_test on every record and source.              *)
(***************************************************************************)
\* the record files _should_run_test may find
DecisionRecords ==
    {NoRecord, PartialRecord}
        \cup {NotebookStats(lm, ok, msg, t, "inf") :
                 lm \in 0..MaxTime, ok \in BOOLEAN,
                 msg \in {SuccessMsg, TimeoutMsg, ErrorMsg, QuoteMsg}, t \in Budgets}

DecisionSources == {[present |-> pr, mtime |-> m, doc |-> NoDoc] :
                       pr \in BOOLEAN, m \in 0..MaxTime}

NoDec == [pc |-> "idle", force |-> FALSE, timeout |-> 0, rec |-> NoRecord,
          src |-> [present |-> FALSE, mtime |-> 0, doc |-> NoDoc], answer |-> "none"]

\* _should_run_test is called
CallShouldRunTest ==
    /\ dec.pc = "begin"
    /\ dec' = [dec EXCEPT !.pc = "done",
                   !.answer = ShouldRunTest(dec.force, dec.timeout, dec.rec, dec.src)]
    /\ UNCHANGED <<source, cache, call, unit, poolVars, key, disc, share>>

(***************************************************************************)
(* SpecShare: one run over two distinct paths that find_notebooks returned, *)
(* one job each, the two jobs on the two threads of the pool.  A path is    *)
(* written without the ".ipynb" its last name ends in, which the key keeps. *)
(* The first document succeeds within the budget, the second raises.        *)
(***************************************************************************)
Jobs == 1..2

\* the absolute paths of the files of a tree
Discovered == {r \in Refs : r.abs}

NoJob == [pc |-> "idle", stats |-> NoStats, wrote |-> FALSE, ret |-> NoResult]

NoShare == [paths |-> <<>>, files |-> <<>>, job |-> [w \in Jobs |-> NoJob]]

\* the name of the record file of job w
ShareKey(w) == GetCacheKey(<<>>, share.paths[w])

ShareDoc(w) == IF w = 1 THEN [need |-> 1, fault |-> "none"]
               ELSE [need |-> 1, fault |-> "error"]

\* the sources are not touched during the run
ShareSource(w) == [present |-> TRUE, mtime |-> 0, doc |-> ShareDoc(w)]

\* test_notebook up to the decision, which reads the record file of the job's key
ShareDecide(w) ==
    /\ share.job[w].pc = "start"
    /\ LET d == ShouldRunTest(FALSE, MaxBudget, share.files[ShareKey(w)], ShareSource(w))
       IN  share' = CASE d = "raise" -> [share EXCEPT !.job[w].pc = "raised"]
                      [] d = "skip" ->
                            [share EXCEPT !.job[w].pc = "done",
                                 !.job[w].ret = CachedResult(share.files[ShareKey(w)])]
                      [] OTHER -> [share EXCEPT !.job[w].pc = "run"]
    /\ UNCHANGED <<source, cache, call, unit, poolVars, key, disc, dec>>

\* _execute_notebook
ShareExecute(w) ==
    /\ share.job[w].pc = "run"
    /\ share' = [share EXCEPT !.job[w].pc = "save",
                     !.job[w].stats = ExecutionStats(
                         ExecuteOutcome(ShareDoc(w), MaxBudget, FALSE), MaxBudget)]
    /\ UNCHANGED <<source, cache, call, unit, poolVars, key, disc, dec>>

\* save_to_cache as far as cache_file.open("w"), which leaves the record file empty
ShareOpen(w) ==
    /\ share.job[w].pc = "save"
    /\ share' = [share EXCEPT !.job[w].pc = "dump", !.job[w].wrote = TRUE,
                     !.files[ShareKey(w)] = PartialRecord]
    /\ UNCHANGED <<source, cache, call, unit, poolVars, key, disc, dec>>

\* save_to_cache: json.dump and the closing of the file; test_notebook returns
ShareDump(w) ==
    /\ share.job[w].pc = "dump"
    /\ share' = [share EXCEPT !.job[w].pc = "done",
                     !.files[ShareKey(w)] = SavedStats(ShareSource(w), share.job[w].stats),
                     !.job[w].ret = TestResult(share.job[w].stats.success,
                                               share.job[w].stats.message, FALSE)]
    /\ UNCHANGED <<source, cache, call, unit, poolVars, key, disc, dec>>

NoPure == key = NoKey /\ disc = NoDisc /\ dec = NoDec /\ share = NoShare

InitKey ==
    /\ source = [nb \in UnderTest |-> [present |-> TRUE, mtime |-> 0, doc |-> NoDoc]]
    /\ cache = [nb \in UnderTest |-> NoRecord]
    /\ call = IdleCall /\ unit = IdleUnit /\ NoPoolRun
    /\ \E c \in Cwds, p \in Refs, q \in Refs :
           key = [NoKey EXCEPT !.pc = "begin", !.cwd = c, !.p = p, !.q = q]
    /\ disc = NoDisc /\ dec = NoDec /\ share = NoShare

SpecKey == InitKey /\ [][GetCacheKeys]_vars

\* an empty cache directory, two distinct discovered paths, both jobs submitted
InitShare ==
    /\ source = [nb \in UnderTest |-> [present |-> TRUE, mtime |-> 0, doc |-> NoDoc]]
    /\ cache = [nb \in UnderTest |-> NoRecord]
    /\ call = IdleCall /\ unit = IdleUnit /\ NoPoolRun
    /\ key = NoKey /\ disc = NoDisc /\ dec = NoDec
    /\ \E p \in Discovered, q \in Discovered :
          /\ p # q
          /\ share = [paths |-> <<p, q>>,
                      files |-> [k \in {GetCacheKey(<<>>, p), GetCacheKey(<<>>, q)}
                                    |-> NoRecord],
                      job |-> [w \in Jobs |-> [NoJob EXCEPT !.pc = "start"]]]

NextShare ==
    \E w \in Jobs :
        \/ ShareDecide(w)
        \/ ShareExecute(w)
        \/ ShareOpen(w)
        \/ ShareDump(w)

SpecShare == InitShare /\ [][NextShare]_vars

InitDiscovery ==
    /\ source = [nb \in UnderTest |-> [present |-> TRUE, mtime |-> 0, doc |-> NoDoc]]
    /\ cache = [nb \in UnderTest |-> NoRecord]
    /\ call = IdleCall /\ unit = IdleUnit /\ NoPoolRun
    /\ \/ \E fs \in SUBSET TreeFiles :
              disc = [NoDisc EXCEPT !.pc = "begin", !.root = <<RootName>>, !.files = fs]
       \/ \E f \in TreeFiles :
              disc = [NoDisc EXCEPT !.pc = "begin", !.root = <<RootName>> \o f,
                            !.isFile = TRUE]
    /\ key = NoKey /\ dec = NoDec /\ share = NoShare

SpecDiscovery == InitDiscovery /\ [][CallFindNotebooks]_vars

InitDecision ==
    /\ source = [nb \in UnderTest |-> [present |-> TRUE, mtime |-> 0, doc |-> NoDoc]]
    /\ cache = [nb \in UnderTest |-> NoRecord]
    /\ call = IdleCall /\ unit = IdleUnit /\ NoPoolRun
    /\ \E f \in BOOLEAN, t \in Budgets, r \in DecisionRecords, src \in DecisionSources :
           dec = [NoDec EXCEPT !.pc = "begin", !.force = f, !.timeout = t, !.rec = r,
                        !.src = src]
    /\ key = NoKey /\ disc = NoDisc /\ share = NoShare

SpecDecision == InitDecision /\ [][CallShouldRunTest]_vars


InitCache ==
    /\ source \in [UnderTest -> {[present |-> TRUE, mtime |-> 0, doc |-> d] : d \in Docs}]
    /\ cache = [nb \in UnderTest |-> NoRecord]
    /\ call = IdleCall
    /\ unit = IdleUnit
    /\ NoPoolRun
    /\ NoPure

NextCache ==
    \/ \E nb \in DOMAIN source, t \in Budgets, f \in BOOLEAN : TestNotebookCall(nb, t, f)
    \/ OpenNotebook
    \/ \E sf \in BOOLEAN : ExecuteNotebook(sf)
    \/ SaveResult
    \/ DumpRecord
    \/ SaveOpenFails
    \/ DumpFails
    \/ KillTester
    \/ \E nb \in DOMAIN source, d \in Docs : WriteSource(nb, d)
    \/ \E nb \in DOMAIN source : DeleteSource(nb)

SpecCache == InitCache /\ [][NextCache]_vars


\* a tester over an empty cache directory has decided to execute the document
InitTeardown ==
    /\ source \in [UnderTest -> {[present |-> TRUE, mtime |-> 0, doc |-> d] : d \in Docs}]
    /\ cache = [nb \in UnderTest |-> NoRecord]
    /\ call = IdleCall
    /\ \E nb \in UnderTest, t \in Budgets :
           unit = [IdleUnit EXCEPT !.pc = "begin", !.nb = nb, !.timeout = t]
    /\ NoPoolRun
    /\ NoPure

NextTeardown ==
    \/ ReadDocument
    \/ CreateClient
    \/ \E sf \in BOOLEAN, kc \in KcKinds, km \in KmKinds : AsyncExecute(sf, kc, km)
    \/ EnterFinally
    \/ \E does \in KcDoes : StopChannels(does)
    \/ StopChannelsDone
    \/ \E does \in KmDoes : ShutdownKernel(does)
    \/ ShutdownKernelDone
    \/ ShutdownKernelTimeout
    \/ \E n \in 0..MaxLeftover : GatherDone(n)
    \/ CancelRemainingTask
    \/ ExecuteReturns
    \/ SaveAndReturn
    \/ \E nb \in DOMAIN source : DeleteSource(nb)

SpecTeardown == InitTeardown /\ [][NextTeardown]_vars

\* every step of the call is taken when it can be: the loop runs what is ready, the
\* thread and the timer of wait_for do their work
FairSpecTeardown == SpecTeardown /\ WF_vars(NextTeardown)

\* the documents of a run: a quick one, a slow one, a failing one, a malformed one
InitDoc(nb) ==
    CASE nb % 4 = 1 -> [need |-> 1, fault |-> "none"]
      [] nb % 4 = 2 -> [need |-> 2, fault |-> "none"]
      [] nb % 4 = 3 -> [need |-> 1, fault |-> "error"]
      [] OTHER -> [need |-> 1, fault |-> "malformed"]

InitSource == [nb \in Notebooks |-> [present |-> TRUE, mtime |-> 0, doc |-> InitDoc(nb)]]

\* the record files an earlier run with the smallest budget has left
EarlierRecords ==
    [nb \in Notebooks |->
        SavedStats(InitSource[nb],
                   ExecutionStats(
                       IF InitDoc(nb).fault = "malformed" THEN Outcome(FALSE, ParseMsg)
                       ELSE ExecuteOutcome(InitDoc(nb), 1, FALSE), 1))]

\* a tester has been constructed: the handlers are installed, the counters are 0
Init ==
    /\ source = InitSource
    /\ cache \in {[nb \in Notebooks |-> NoRecord], EarlierRecords}
    /\ call = IdleCall
    /\ unit = IdleUnit
    /\ \E t \in Budgets, f \in BOOLEAN : run = [IdleRun EXCEPT !.timeout = t, !.force = f]
    /\ pool = NoPool
    /\ fut = [nb \in Notebooks |-> NoFuture]
    /\ worker = [w \in Workers |-> NoWorker]
    /\ NoPure

\* a document is removed while the tester runs, MaxDeleted of them at most
RemoveDocument ==
    /\ Cardinality({nb \in Notebooks : ~source[nb].present}) < MaxDeleted
    /\ \E nb \in Notebooks : DeleteSource(nb)

MainNext ==
    \/ RunTests
    \/ FindNotebooks
    \/ CreatePool
    \/ AssignExecutor
    \/ SubmitBegin
    \/ SubmitEnd
    \/ SubmitDone
    \/ \E j \in Notebooks : AsCompleted(j)
    \/ LoopDone
    \/ TakeResult
    \/ PbarUpdate
    \/ CollectFailure
    \/ ExitPool
    \/ ClosePool
    \/ JoinDone
    \/ HandleGracefulExit
    \/ Summary

WorkerNext ==
    \/ \E w \in Workers : WorkerTake(w)
    \/ \E w \in Workers : JobDecide(w)
    \/ \E w \in Workers, sf \in BOOLEAN : JobExecute(w, sf)

Next ==
    \/ MainNext
    \/ WorkerNext
    \/ \E w \in Workers : JobHangs(w)
    \/ SignalHandler
    \/ RemoveDocument

Spec == Init /\ [][Next]_vars

\* the main thread and the worker threads run when they can; a hung call, a signal
\* and the removal of a document are not owed
FairSpec == Spec /\ WF_vars(MainNext) /\ WF_vars(WorkerNext)

(***************************************************************************)
(* Claims about the cache, checked under SpecCache.                        *)
(***************************************************************************)
\* a step that is a call of test_notebook reaching its decision
Decides == CallOver /\ call' # call

TimeoutRecord(rec) ==
    rec.kind = "stats" /\ ~rec.success /\ Contains(rec.message, Marker)

SuccessRecord(rec) == rec.kind = "stats" /\ rec.success

\* an executed call that returned has left its own outcome in the record file
ExecutedCallSaved ==
    (call.pc = "returned" /\ call.executed) =>
        /\ cache[call.nb].kind = "stats"
        /\ cache[call.nb].success = call.ret.success
        /\ cache[call.nb].message = call.ret.message
        /\ cache[call.nb].timeout = call.timeout

\* C1 - Timeout monotonicity: when the record is a timeout written with budget B, a
\* non-forced call with a budget above B executes the document (and, once it
\* returns, the record holds the new outcome), and a non-forced call with a budget
\* of at most B is skipped, answers the stored failure as a cached result and
\* leaves the record as it is.
C1_TimeoutMonotonicity ==
    /\ [][(Decides /\ ~call'.force /\ TimeoutRecord(cache[call'.nb])) =>
            LET rec == cache[call'.nb] IN
            /\ (call'.timeout > rec.timeout /\ source[call'.nb].present) =>
                   call'.executed /\ call'.pc = "open"
            /\ call'.timeout <= rec.timeout =>
                   /\ ~call'.executed /\ call'.pc = "returned"
                   /\ call'.ret = TestResult(FALSE, rec.message, TRUE)
                   /\ cache' = cache]_vars
    /\ []ExecutedCallSaved

\* C1 witness: a document timed out with a smaller budget, is executed again with a
\* larger one without force, and has now succeeded
C1_Witness ==
    /\ call.pc = "save" /\ ~call.force /\ call.stats.success
    /\ TimeoutRecord(cache[call.nb]) /\ cache[call.nb].message = TimeoutMsg
    /\ cache[call.nb].timeout < call.timeout

\* the result an executed call returns is the one its record keeps, so that the
\* cached answer of a later call repeats it
ResultIsRecorded ==
    (call.pc = "returned" /\ call.executed) =>
        CachedResult(cache[call.nb]) = [call.ret EXCEPT !.cached = TRUE]

\* C2 - Cache hit stability: with a success record and a source whose mtime is the
\* record's last_modified, a non-forced call with any budget does not execute,
\* answers the record's success and message marked cached, and changes neither the
\* record nor the source, so that further calls answer the same; the answer is the
\* one the executing call returned.
C2_CacheHitStability ==
    /\ [][(/\ Decides /\ ~call'.force /\ SuccessRecord(cache[call'.nb])
           /\ source[call'.nb].present
           /\ source[call'.nb].mtime = cache[call'.nb].last_modified) =>
            /\ ~call'.executed /\ call'.pc = "returned"
            /\ call'.ret = TestResult(TRUE, cache[call'.nb].message, TRUE)
            /\ call'.ret.message = SuccessMsg
            /\ cache' = cache /\ source' = source]_vars
    /\ []ResultIsRecorded

\* C2 witness: a cached success answered under a budget smaller than the one the
\* record was written with
C2_Witness ==
    /\ call.pc = "returned" /\ ~call.force /\ ~call.executed
    /\ call.ret = TestResult(TRUE, SuccessMsg, TRUE)
    /\ source[call.nb].present /\ source[call.nb].mtime = cache[call.nb].last_modified
    /\ call.timeout < cache[call.nb].timeout

\* C3 - Mtime invalidation: with a success record and a source modified after the
\* record's last_modified, a non-forced call executes the document.
C3_MtimeInvalidation ==
    [][(/\ Decides /\ ~call'.force /\ SuccessRecord(cache[call'.nb])
        /\ source[call'.nb].present
        /\ source[call'.nb].mtime > cache[call'.nb].last_modified) =>
            call'.executed /\ call'.pc = "open"]_vars

\* C3 witness: a non-forced call past its decision over a success record older than
\* the source
C3_Witness ==
    /\ call.pc = "open" /\ ~call.force /\ SuccessRecord(cache[call.nb])
    /\ source[call.nb].present
    /\ source[call.nb].mtime > cache[call.nb].last_modified

\* C4 - Force bypass: a forced call executes whatever the record file and the source
\* are, and a forced call that returns is not marked cached.
C4_ForceBypass ==
    /\ [][(Decides /\ call'.force) => (call'.executed /\ call'.pc = "open")]_vars
    /\ []((call.force /\ call.pc = "returned") => (call.executed /\ ~call.ret.cached))

\* C4 witness: a forced call has executed the document although the record is a
\* success for the unmodified source
C4_Witness ==
    /\ call.pc = "save" /\ call.force /\ SuccessRecord(cache[call.nb])
    /\ source[call.nb].present
    /\ source[call.nb].mtime = cache[call.nb].last_modified

(***************************************************************************)
(* Claims about the teardown, checked under SpecTeardown.                  *)
(***************************************************************************)
\* _execute_notebook is over: the call is past its finally clause
ExecuteOver == unit.pc \in {"after", "save", "returned", "raised"}

\* C6 - Teardown always runs: once a NotebookClient has been created for the call,
\* _cleanup_notebook_client is called exactly once by the time _execute_notebook is
\* over - after a success, a failure, a timeout, or when the return statement itself
\* raises - and it has returned before the record is written and before the call
\* returns or raises to its caller.
C6_TeardownAlwaysRuns ==
    /\ unit.cleanupCalls <= 1
    /\ (unit.client /\ ExecuteOver) => (unit.cleanupCalls = 1 /\ unit.cleanupDone)
    /\ (unit.client /\ (unit.saved \/ cache[unit.nb] # NoRecord)) => unit.cleanupDone

\* C6 witness: the execution exceeded the budget, the cleanup ran once with both
\* releases, and the failure has been recorded and returned
C6_Witness ==
    /\ unit.pc = "returned" /\ unit.client /\ unit.outcome.message = TimeoutMsg
    /\ unit.cleanupCalls = 1 /\ unit.cleanupDone
    /\ unit.stopCalls = 1 /\ unit.shutdownCalls = 1
    /\ cache[unit.nb] # NoRecord

\* C7 - Teardown never blocks indefinitely: once _cleanup_notebook_client has been
\* entered it eventually completes, and the call eventually returns or raises to its
\* caller, whatever the two releases do - also when one of them never returns.
C7_TeardownNeverBlocks ==
    (unit.pc = "gather") ~> (unit.pc \in {"returned", "raised"})

\* the release of the kernel shut down or timed out after having raised an exception
KernelReleaseFailed ==
    unit.shutdownCalls = 1 /\ unit.t2 = "done" /\ unit.kmDoes # "returns"

\* the release of the channels raised
ChannelsReleaseFailed ==
    unit.stopCalls = 1 /\ unit.t1 = "done" /\ unit.kcDoes = "RuntimeError"

\* C8 - Teardown errors are isolated: neither release is called twice; when the
\* kernel release raised or timed out, stop_channels of an existing kc has been
\* called once; when stop_channels raised, shutdown_kernel of an existing km has
\* been called once by the time the cleanup is over; no exception comes out of
\* _cleanup_notebook_client; and the call returns the success flag and the message
\* that execution produced, which is also what it records.
C8_TeardownErrorsIsolated ==
    /\ unit.stopCalls <= 1 /\ unit.shutdownCalls <= 1
    /\ (KernelReleaseFailed /\ unit.kc # "none") => unit.stopCalls = 1
    /\ (ChannelsReleaseFailed /\ unit.km # "none" /\ ExecuteOver) =>
           unit.shutdownCalls = 1
    /\ ~unit.escaped
    /\ (unit.client /\ ExecuteOver /\ source[unit.nb].present) =>
           (unit.pending = "return" /\ unit.stats.success = unit.outcome.success
            /\ unit.stats.message = unit.outcome.message)
    /\ unit.pc = "returned" =>
           /\ unit.ret = TestResult(unit.outcome.success, unit.outcome.message, FALSE)
           /\ cache[unit.nb].success = unit.outcome.success
           /\ cache[unit.nb].message = unit.outcome.message

\* C8 witness: stop_channels raised, the kernel shutdown timed out, and the call
\* has returned the success of the execution
C8_Witness ==
    /\ unit.pc = "returned" /\ unit.outcome.success /\ unit.ret.success
    /\ ChannelsReleaseFailed /\ KernelReleaseFailed /\ unit.kmDoes = "hangs"

(***************************************************************************)
(* Claims about run_tests, checked under Spec and FairSpec.                *)
(***************************************************************************)
RunCompleted == run.pc = "done" /\ ~run.interrupted

\* C5: after a run that completed without an interrupt, the three counters add up
\* to the number of documents discovered: successful + failed + timed out = N,
\* whatever the order in which the workers finished.
C5_AggregateConservation ==
    RunCompleted =>
        run.successful + run.failed + run.no_more_time = Len(run.notebooks)

\* a completed run of NumNotebooks documents with one at least in every counter
C5_Witness ==
    /\ RunCompleted
    /\ Len(run.notebooks) = NumNotebooks
    /\ run.successful >= 1 /\ run.failed >= 1 /\ run.no_more_time >= 1

NotStarted(j) == fut[j].state \in {"none", "pending"}

\* C9: once an interrupt has been handled, a job that had not started executing is
\* not started afterwards: it is neither submitted nor taken from the queue and run.
C9_NoNewWorkAfterInterrupt ==
    [][run.interrupted =>
          \A j \in Notebooks : NotStarted(j) => fut'[j] = fut[j]]_vars

Stopped == run.pc = "done"

\* C10: after an interrupt the scheduler reaches STOPPED (the summary is logged and
\* run_tests returns) even if a job never finishes.  The runs in which the handler
\* itself does not return, or in which its exception leaves run_tests, are set aside.
C10_DrainingBounded ==
    (run.interrupted /\ run.pc \notin {"crashed", "deadlocked"})
        ~> (Stopped \/ run.pc \in {"crashed", "deadlocked"})


\* run_tests has been entered and has neither returned nor been left by an exception
InsideRunTests == run.pc \notin {"idle", "done", "crashed", "deadlocked"}

\* C11: a first interrupt delivered anywhere inside run_tests does not take an
\* exception out of run_tests, and the summary is logged exactly once by the time
\* run_tests is over.
C11_SummaryAlwaysPrinted ==
    /\ [][(InsideRunTests /\ run.signals = 0) => run'.pc # "crashed"]_vars
    /\ [](run.summaries <= 1)
    /\ [](run.pc = "done" => run.summaries = 1)

\* an interrupt is delivered to a run that has been interrupted before
SecondInterrupt == run.signals >= 1 /\ run'.signals = run.signals + 1

\* C12: an interrupt after the first one is harmless: its handler returns, its
\* exception does not leave run_tests, the counters are the same after it as before,
\* and a run that has returned stays returned.
C12_InterruptIdempotent ==
    [][SecondInterrupt =>
          /\ run'.pc \notin {"crashed", "deadlocked"}
          /\ run'.successful = run.successful
          /\ run'.failed = run.failed
          /\ run'.no_more_time = run.no_more_time]_vars

(***************************************************************************)
(* Claims about errors around the record file and the document, checked    *)
(* under SpecCache.                                                        *)
(***************************************************************************)
\* C13: a record file that exists but does not parse counts as no record: a
\* non-forced call over it, for a source that is there, executes the document
\* (and so comes to overwrite the record) instead of raising or answering a failure.
C13_CorruptRecordIsNoRecord ==
    [][(/\ Decides /\ ~call'.force /\ cache[call'.nb] = PartialRecord
        /\ source[call'.nb].present) =>
            (call'.executed /\ call'.pc = "open")]_vars

\* C14: a failure to write the record does not abort the job: once the document has
\* been executed and its source is still there, test_notebook does not raise (it
\* returns the TestResult of the execution).
C14_WriteFailureDoesNotAbort ==
    [][(call.pc \in {"save", "dump"} /\ source[call.nb].present) =>
          call'.pc # "raised"]_vars

\* C15: the errors of a job do not leave test_notebook as exceptions: a call that
\* has decided to execute does not raise while it opens, parses and executes the
\* document - a missing, unreadable or malformed document, a session that does not
\* start, a budget exceeded or a failing cell all become a failed TestResult.
C15_PerJobErrorsAreResults ==
    [][call.pc = "open" => call'.pc # "raised"]_vars

\* C17: a save is atomic: the record file of a job is at every moment either
\* absent or a complete record, never empty or cut short - whoever reads it during
\* a save, or after the process died in the middle of one.
C17_SaveIsAtomic ==
    \A nb \in DOMAIN cache : cache[nb] # PartialRecord

(***************************************************************************)
(* Claims about the collection loop, checked under Spec.                   *)
(***************************************************************************)
Collected == {run.notebooks[i] : i \in 1..Len(run.notebooks)}

Raised == {j \in Collected : fut[j].state = "finished" /\ fut[j].raised}

Returned == {j \in Collected : fut[j].state = "finished" /\ ~fut[j].raised}

\* C16: a future whose result() raises adds exactly one to failed and the loop goes
\* on: the step of the except clause leads back to as_completed with failed one
\* higher and the other counters as they were, and a run that completes without an
\* interrupt has counted every job - the raising ones as failed, each of the others
\* by the result it returned.
C16_CollectionFailureContinues ==
    /\ [][(run.pc = "except" /\ run'.pc # "except" /\ run'.signals = run.signals) =>
            /\ run'.pc = "wait"
            /\ run'.failed = run.failed + 1
            /\ run'.successful = run.successful
            /\ run'.no_more_time = run.no_more_time]_vars
    /\ [](RunCompleted =>
            /\ Raised \cup Returned = Collected
            /\ run.successful = Cardinality({j \in Returned : fut[j].result.success})
            /\ run.no_more_time =
                   Cardinality({j \in Returned : /\ ~fut[j].result.success
                                                 /\ Contains(fut[j].result.message, Marker)})
            /\ run.failed =
                   Cardinality(Raised)
                   + Cardinality({j \in Returned : /\ ~fut[j].result.success
                                                   /\ ~Contains(fut[j].result.message, Marker)}))

\* C16 witness: a completed run in which one job raised and was counted as failed
\* while the other jobs returned and were counted, a success among them
C16_Witness ==
    /\ RunCompleted /\ Len(run.notebooks) = NumNotebooks
    /\ Cardinality(Raised) = 1 /\ run.failed >= 1
    /\ run.successful >= 1
    /\ Cardinality(Returned) = NumNotebooks - 1

(***************************************************************************)
(* Claims about the pure functions, checked under SpecKey, SpecDiscovery   *)
(* and SpecDecision.                                                       *)
(***************************************************************************)
\* C18: the cache key is a function of the canonical absolute path that tells the
\* paths apart: two references have the same key exactly when they resolve to the
\* same path.
C18_CacheKeyInjective ==
    key.pc = "done" =>
        ((key.kp = key.kq) <=> (Resolve(key.cwd, key.p) = Resolve(key.cwd, key.q)))

\* a document: a file whose name ends in ".ipynb"
IsDocument(path) == path # <<>> /\ MatchesIpynb(path[Len(path)])

\* the path lies below a directory named ".ipynb_checkpoints"
BeneathCheckpoints(path) == \E i \in 1..(Len(path) - 1) : path[i] = CheckpointDir

\* C19: for a root that is a file the job list is that file alone; for a directory
\* it holds exactly the documents below the root that are not beneath a directory
\* named ".ipynb_checkpoints", each once, in increasing order of path.
C19_Discovery ==
    disc.pc = "done" =>
        IF disc.isFile THEN disc.result = <<disc.root>>
        ELSE /\ {disc.result[i] : i \in 1..Len(disc.result)} =
                    {disc.root \o f : f \in
                        {g \in disc.files : /\ IsDocument(g)
                                            /\ ~BeneathCheckpoints(disc.root \o g)}}
             /\ \A i \in 1..(Len(disc.result) - 1) :
                    PathLess(disc.result[i], disc.result[i + 1])

\* the stored run used a budget at least the current one and its message has the marker
TimedOutWithinBudget(rec, timeout) ==
    rec.timeout >= timeout /\ Contains(rec.message, Marker)

\* C20: the decision follows the table: run when forced or when there is no record;
\* otherwise skip when the stored budget is at least the current one and the stored
\* message has the marker, also when the source was modified since; otherwise run
\* exactly when the source was modified after last_modified or the stored run failed.
C20_DecisionTable ==
    dec.pc = "done" =>
        /\ (dec.force \/ dec.rec.kind = "none") => dec.answer = "run"
        /\ (~dec.force /\ dec.rec.kind = "stats") =>
              /\ TimedOutWithinBudget(dec.rec, dec.timeout) => dec.answer = "skip"
              /\ (~TimedOutWithinBudget(dec.rec, dec.timeout) /\ dec.src.present) =>
                    /\ dec.answer \in {"run", "skip"}
                    /\ dec.answer = "run" <=>
                          (dec.src.mtime > dec.rec.last_modified \/ ~dec.rec.success)

\* C20 witness: a stored timeout within the budget is skipped although the source
\* was modified after the record
C20_Witness ==
    /\ dec.pc = "done" /\ ~dec.force /\ dec.rec.kind = "stats"
    /\ TimedOutWithinBudget(dec.rec, dec.timeout)
    /\ dec.src.present /\ dec.src.mtime > dec.rec.last_modified
    /\ dec.answer = "skip"

(***************************************************************************)
(* Claims about the counters and the pool, checked under Spec.             *)
(***************************************************************************)
\* the step that classifies the result future.result() returned
Classifies == run.pc = "result" /\ run'.pc = "update"

\* C21: a collected result adds one to exactly one counter: to successful when its
\* success flag is set; otherwise to the timed-out counter exactly when its message
\* contains "A cell timed out"; otherwise to failed - for a cached result as for an
\* executed one.
C21_Classification ==
    [][Classifies =>
          LET r == fut[run.cur].result
              timedOut == ~r.success /\ Contains(r.message, Marker)
          IN  /\ run'.successful = run.successful + (IF r.success THEN 1 ELSE 0)
              /\ run'.no_more_time = run.no_more_time + (IF timedOut THEN 1 ELSE 0)
              /\ run'.failed =
                     run.failed + (IF ~r.success /\ ~timedOut THEN 1 ELSE 0)
              /\ (run'.successful + run'.no_more_time + run'.failed)
                     = (run.successful + run.no_more_time + run.failed) + 1]_vars

\* C21 witness: a cached timeout has just been counted as timed out, after an
\* executed failure without the marker was counted as failed
C21_Witness ==
    /\ run.pc = "update" /\ run.no_more_time = 1 /\ run.failed = 1
    /\ fut[run.cur].result.cached /\ ~fut[run.cur].result.success
    /\ Contains(fut[run.cur].result.message, Marker)
    /\ \E j \in Notebooks :
          /\ fut[j].yielded /\ fut[j].state = "finished" /\ ~fut[j].raised
          /\ ~fut[j].result.cached /\ ~fut[j].result.success
          /\ ~Contains(fut[j].result.message, Marker)

\* the futures as_completed has handed to the loop body so far
CollectedSoFar == {j \in Notebooks : fut[j].yielded}

\* C26: every job has one terminal status: at every point of a run, interrupted or
\* not, the three counters add up to no more than the number of results collected
\* so far, hence to no more than the number of jobs.
C26_OneTerminalStatus ==
    /\ run.successful + run.failed + run.no_more_time <= Cardinality(CollectedSoFar)
    /\ run.successful + run.failed + run.no_more_time <= Len(run.notebooks)

\* the threads of the pool that are inside a call of test_notebook
Busy == {w \in Workers : worker[w].state \in {"decide", "exec", "hung"}}

\* the jobs whose call of test_notebook has begun and is not over
Running == {j \in Notebooks : fut[j].state = "running"}

\* C24: the pool is bounded: it never has more than max_workers threads, so no more
\* than max_workers jobs are running at any moment; every running job is with
\* exactly one thread and a thread keeps its job until the call is over - the
\* record of an executed job written - before it takes another; and a job is
\* submitted once, started once, and finished for good.
C24_BoundedPool ==
    /\ [](pool.threads <= NumWorkers)
    /\ [](Cardinality(Running) <= NumWorkers)
    /\ [](\A j \in Running :
             Cardinality({w \in Busy : worker[w].job = j}) = 1)
    /\ [](\A w \in Busy : worker[w].job \in Running)
    /\ [][\A w \in Busy :
             \/ worker'[w].job = worker[w].job /\ w \in Busy'
             \/ /\ worker'[w].state = "idle"
                /\ fut'[worker[w].job].state = "finished"
                /\ (~fut'[worker[w].job].raised /\ ~fut'[worker[w].job].result.cached)
                       => (/\ cache'[worker[w].job].kind = "stats"
                           /\ cache'[worker[w].job].success
                                  = fut'[worker[w].job].result.success)]_vars
    /\ [][\A j \in Notebooks :
             /\ (fut'[j].state = "pending" /\ fut[j].state # "pending")
                    => fut[j].state = "none"
             /\ (fut'[j].state = "running" /\ fut[j].state # "running")
                    => fut[j].state = "pending"
             /\ fut[j].state = "finished" => fut'[j].state = "finished"]_vars

\* C24 witness: every thread of the pool is running a job while another job waits
\* in the queue
C24_Witness ==
    /\ pool.threads = NumWorkers
    /\ Cardinality(Running) = NumWorkers
    /\ Cardinality(Busy) = NumWorkers
    /\ \E j \in Notebooks : fut[j].state = "pending"

\* a call of test_notebook comes back with a TestResult
Returns == call' # call /\ call'.pc = "returned"

\* C23: the record is written exactly when the job is executed. A call that is
\* skipped returns a cached result and leaves the record file as it was; the record
\* file changes only in the steps of a call that went on to execute; and a call
\* that executed returns its result, marked not cached, in the step that completes
\* the record, which then holds this run's success flag, its message and the budget
\* of this call - for a success, a failure and a timeout alike.
C23_RecordWrittenWhenExecuted ==
    /\ [][(Returns /\ ~call'.executed) =>
             /\ cache' = cache
             /\ call'.ret.cached
             /\ call'.ret = CachedResult(cache[call'.nb])]_vars
    /\ [][cache' # cache => call.executed /\ call.pc \in {"save", "dump"}]_vars
    /\ [][(Returns /\ call'.executed) =>
             /\ call.pc = "dump" /\ cache' # cache
             /\ ~call'.ret.cached
             /\ cache'[call.nb].kind = "stats"
             /\ cache'[call.nb].success = call'.ret.success
             /\ cache'[call.nb].message = call'.ret.message
             /\ cache'[call.nb].timeout = call.timeout
             /\ call'.ret.success = call.stats.success
             /\ call'.ret.message = call.stats.message]_vars
    /\ [](call.pc = "returned" => (call.ret.cached <=> ~call.executed))

\* C23 witness: an executed call that timed out has returned, its record written
\* with the budget of the call over what was there, the source still the version
\* the earlier success was made of
C23_Witness ==
    /\ call.pc = "returned" /\ call.executed /\ ~call.ret.cached
    /\ TimeoutRecord(cache[call.nb])
    /\ cache[call.nb].timeout = call.timeout
    /\ call.force
    /\ source[call.nb].present

\* C25: the last_modified of a record is the mtime of the source version that was
\* read and executed: once an executed call has returned, its record carries the
\* mtime the source had when the call read it, so that after a successful run of a
\* source that has been written since it was read, the next call without force
\* executes the document again, whatever its budget.
C25_StampIsExecutedVersion ==
    /\ []((call.pc = "returned" /\ call.executed) =>
             cache[call.nb].last_modified = call.readAt)
    /\ [][(/\ call.pc = "returned" /\ call.executed /\ call.ret.success
           /\ Decides /\ ~call'.force /\ call'.nb = call.nb
           /\ source[call.nb].present
           /\ source[call.nb].mtime > call.readAt) => call'.executed]_vars

(***************************************************************************)
(* Claims about the record files of one run, checked under SpecShare.      *)
(***************************************************************************)
\* job w has read its record file
HasRead(w) == share.job[w].pc \notin {"idle", "start"}

\* C22: within one run the record files are accessed under distinct keys: of two
\* jobs for distinct discovered paths, never have both written the same record
\* file, and never has one read the record file the other writes.
C22_DistinctKeysInRun ==
    \A w \in Jobs : \A v \in Jobs \ {w} :
        /\ (share.job[w].wrote /\ share.job[v].wrote) => ShareKey(w) # ShareKey(v)
        /\ (HasRead(w) /\ share.job[v].wrote) => ShareKey(w) # ShareKey(v)

====
